---- MODULE Spec2Model ----
(***************************************************************************)
(* Model of transcript_sentiment_analysis.py: the transcript parser        *)
(* (load_transcript_from_file), the change detector                        *)
(* (analyze_emotion_changes) and the influence aggregation                  *)
(* (trigger_impact).                                                        *)
(*                                                                          *)
(* Sentiment scores and thresholds are exact numbers on a grid (integers,  *)
(* one unit standing for a fixed step of the score scale); floating-point  *)
(* rounding of the subtraction and of the sums is not modelled.            *)
(* Every utterance carries its row number as text, so that an event's      *)
(* before_text / after_text / trigger_text identify the rows it cites.     *)
(***************************************************************************)
EXTENDS Integers, Sequences, FiniteSets, TLC

VARIABLES
    lines,               \* the file's lines (load_transcript_from_file)
    i,                   \* the parser's loop index, 0-based as in the code
    segments,            \* the parser's output list
    emotion_df,          \* the scored utterances (rows in input order)
    threshold,           \* the caller's threshold
    sort_ties,           \* how this build's default sort orders equal keys
    emotion_changes_df,  \* result of analyze_emotion_changes
    second_changes_df,   \* result of a second call on the same input
    trigger_impact,      \* the influence table
    bound_names,         \* the result names the notebook has assigned so far
    response,            \* what fm_client.predict does for one utterance
    emotion,             \* what analyze_emotion returned for it
    udf_row,             \* what analyze_emotion_udf returned for it
    pc

vars == <<lines, i, segments, emotion_df, threshold, sort_ties,
          emotion_changes_df, second_changes_df, trigger_impact,
          bound_names, response, emotion, udf_row, pc>>

scorer_vars == <<response, emotion, udf_row>>

\* ---------------------------------------------------------------- bounds
MaxN == 4          \* rows of emotion_df (scored utterances)
MaxEvents == 3     \* rows of a change-event collection drawn directly
MaxLines == 4      \* lines of a transcript file
MaxContent == 4    \* tokens of a model response's content

DefaultDuration == 30   \* line 149: end_time = start_time + 30

Speakers == {"A", "B"}
Times == {0, 1, 2, 3}
Scores == {-1, 1}
Thresholds == {0, 1, 2, 3}
TieOrders == {"input", "reversed"}

\* ------------------------------------------------------------ helpers
Reverse(s) == [k \in 1..Len(s) |-> s[Len(s) + 1 - k]]

Abs(x) == IF x < 0 THEN -x ELSE x

RECURSIVE Flatten(_)
Flatten(ss) == IF ss = <<>> THEN <<>> ELSE Head(ss) \o Flatten(Tail(ss))

\* numpy argsort with pandas' default kind (quicksort): the positions of
\* keys in ascending key order.  Equal keys come out in an order the
\* algorithm does not promise; sort_ties is what this build does with them.
ArgSort(keys) ==
    LET n == Len(keys)
        Before(p, q) == \/ keys[p] < keys[q]
                        \/ /\ keys[p] = keys[q]
                           /\ IF sort_ties = "input" THEN p < q ELSE p > q
    IN  SortSeq([k \in 1..n |-> k], Before)

\* DataFrame.sort_values('start_time'): rows reordered by ArgSort.
SortByStartTime(rows) ==
    LET idx == ArgSort([k \in 1..Len(rows) |-> rows[k].start_time])
    IN  [k \in 1..Len(rows) |-> rows[idx[k]]]

\* Series.unique(): distinct values in order of first appearance.
RECURSIVE Unique(_)
Unique(s) ==
    IF s = <<>> THEN <<>>
    ELSE LET h == Head(s)
         IN  <<h>> \o Unique(SelectSeq(Tail(s), LAMBDA x : x # h))

\* ------------------------------------------- analyze_emotion_changes
ExceedsThreshold_strict(score_change, tau) == Abs(score_change) > tau

\* The comparison of line 553.
ExceedsThreshold(score_change, tau) == Abs(score_change) >= tau

TriggerUtterance_first(other_speakers) == other_speakers[1]

\* Line 567: other_speakers.iloc[-1].
TriggerUtterance(other_speakers) == other_speakers[Len(other_speakers)]

SpeakerData_unsorted(df, speaker) ==
    SelectSeq(df, LAMBDA r : r.speaker = speaker)

\* Line 543: the speaker's rows, sorted by start_time, reindexed.
SpeakerData(df, speaker) ==
    SortByStartTime(SelectSeq(df, LAMBDA r : r.speaker = speaker))

\* Lines 559-563: the other speakers' rows strictly inside the interval.
OtherSpeakers(df, speaker, between_time_start, between_time_end) ==
    SortByStartTime(SelectSeq(df, LAMBDA r :
        /\ r.speaker # speaker
        /\ r.start_time > between_time_start
        /\ r.start_time < between_time_end))

\* Lines 546-586: the body of the inner loop for one pair.
PairChange(df, speaker, previous, current, tau) ==
    LET score_change == current.sentiment_score - previous.sentiment_score
        other_speakers == OtherSpeakers(df, speaker, previous.start_time,
                                        current.start_time)
        trigger_utterance == TriggerUtterance(other_speakers)
    IN  IF ExceedsThreshold(score_change, tau) /\ Len(other_speakers) > 0
        THEN << [affected_speaker |-> speaker,
                 change_type |-> IF score_change > 0 THEN "improvement"
                                 ELSE "deterioration",
                 score_change |-> score_change,
                 before_score |-> previous.sentiment_score,
                 after_score |-> current.sentiment_score,
                 before_time |-> previous.start_time,
                 after_time |-> current.start_time,
                 before_text |-> previous.text,
                 after_text |-> current.text,
                 trigger_speaker |-> trigger_utterance.speaker,
                 trigger_time |-> trigger_utterance.start_time,
                 trigger_text |-> trigger_utterance.text,
                 trigger_emotion |-> trigger_utterance.emotion,
                 trigger_score |-> trigger_utterance.sentiment_score] >>
        ELSE <<>>

\* Lines 545-586: the inner loop over one speaker's adjacent pairs.
SpeakerChanges(df, speaker, tau) ==
    LET speaker_data == SpeakerData(df, speaker)
    IN  Flatten([k \in 1..(Len(speaker_data) - 1) |->
                   PairChange(df, speaker, speaker_data[k],
                              speaker_data[k + 1], tau)])

\* Lines 539-588: the whole function.
analyze_emotion_changes(df, tau) ==
    LET speakers == Unique([k \in 1..Len(df) |-> df[k].speaker])
    IN  Flatten([k \in 1..Len(speakers) |->
                   SpeakerChanges(df, speakers[k], tau)])

FrameAfterCall_inplace(df) == SortByStartTime(df)

\* The frame the caller still holds after a call: boolean indexing and
\* sort_values (inplace=False) build new frames, emotion_df is not touched.
FrameAfterCall(df) == df

\* ----------------------------------------------------- trigger_impact
RECURSIVE SumSeq(_)
SumSeq(s) == IF s = <<>> THEN 0 ELSE Head(s) + SumSeq(Tail(s))

\* The order of the speaker names as strings.
SpeakerRank(sp) == CASE sp = "A" -> 1 [] sp = "B" -> 2 [] sp = "C" -> 3

GroupKeys_unsorted(changes) ==
    Unique([k \in 1..Len(changes) |-> changes[k].trigger_speaker])

\* groupby('trigger_speaker') with its default sort=True: the distinct keys
\* in ascending order.
GroupKeys(changes) ==
    LET keys == {changes[k].trigger_speaker : k \in 1..Len(changes)}
    IN  [k \in 1..Cardinality(keys) |->
           CHOOSE sp \in keys :
             Cardinality({o \in keys : SpeakerRank(o) < SpeakerRank(sp)})
               = k - 1]

GroupSum_clamped(g) ==
    LET t == SumSeq([k \in 1..Len(g) |-> g[k].score_change])
    IN  IF t < 0 THEN 0 ELSE t

\* Line 644: the 'sum' of a group's score_change.
GroupSum(g) == SumSeq([k \in 1..Len(g) |-> g[k].score_change])

\* Lines 643-647: one row per group with count, mean and sum of
\* score_change; the mean is kept as the fraction num/den.
GroupByAgg(changes) ==
    LET keys == GroupKeys(changes)
        Group(sp) == SelectSeq(changes, LAMBDA e : e.trigger_speaker = sp)
    IN  [k \in 1..Len(keys) |->
           [trigger_speaker |-> keys[k],
            count |-> Len(Group(keys[k])),
            avg_impact |-> [num |-> GroupSum(Group(keys[k])),
                            den |-> Len(Group(keys[k]))],
            total_impact |-> GroupSum(Group(keys[k]))]]

SortByTotalImpactDescending_ascending(table) ==
    LET n == Len(table)
        idx == ArgSort([k \in 1..n |-> table[k].total_impact])
    IN  [k \in 1..n |-> table[idx[k]]]

\* Line 648: sort_values('total_impact', ascending=False).  pandas reverses
\* the column, argsorts it ascending and reverses the resulting order.
SortByTotalImpactDescending(table) ==
    LET n == Len(table)
        reversed == Reverse([k \in 1..n |-> table[k].total_impact])
        idx == ArgSort(reversed)
        indexer == Reverse([k \in 1..n |-> n + 1 - idx[k]])
    IN  [k \in 1..n |-> table[indexer[k]]]

TriggerImpact(changes) == SortByTotalImpactDescending(GroupByAgg(changes))

\* ------------------------------------------------------------- inputs
EmotionOf(score) == IF score > 0 THEN "positive"
                    ELSE IF score < 0 THEN "negative" ELSE "neutral"

Row(n, sp, t, sc) ==
    [speaker |-> sp, start_time |-> t, text |-> n,
     emotion |-> EmotionOf(sc), sentiment_score |-> sc]

\* Start times are compared, never measured, and speaker names are labels:
\* the frames drawn use the times 0..k without gaps and call the speaker of
\* the first row "A".
Frames(n) ==
    { [k \in 1..n |-> Row(k, f[k][1], f[k][2], f[k][3])] :
        f \in { g \in [1..n -> Speakers \X Times \X Scores] :
                 /\ n > 0 => g[1][1] = "A"
                 /\ \A k \in 1..n : g[k][2] = 0 \/
                       \E m \in 1..n : g[m][2] = g[k][2] - 1 } }

NoFile == /\ lines = <<>> /\ i = 0 /\ segments = <<>>

\* A dict without keys, and a call that has not been made.
EmptyDict == [k \in {} |-> ""]
NoCall == [raised |-> FALSE, value |-> EmptyDict]
NoResponse == [kind |-> "none", content |-> <<>>]

NoScoring == /\ response = NoResponse /\ emotion = NoCall /\ udf_row = NoCall

Init ==
    /\ NoScoring
    /\ NoFile
    /\ \E n \in 0..MaxN : emotion_df \in Frames(n)
    /\ threshold \in Thresholds
    /\ sort_ties \in TieOrders
    /\ emotion_changes_df = <<>>
    /\ second_changes_df = <<>>
    /\ trigger_impact = <<>>
    /\ bound_names = {"emotion_df"}
    /\ pc = "scored"

\* Line 591: emotion_changes_df = analyze_emotion_changes(emotion_df, ...)
AnalyzeEmotionChanges ==
    /\ UNCHANGED scorer_vars
    /\ pc = "scored"
    /\ emotion_changes_df' = analyze_emotion_changes(emotion_df, threshold)
    /\ emotion_df' = FrameAfterCall(emotion_df)
    /\ bound_names' = bound_names \cup {"emotion_changes_df"}
    /\ pc' = "analyzed"
    /\ UNCHANGED <<lines, i, segments, threshold, sort_ties,
                   second_changes_df, trigger_impact>>

HasChanges_always(changes) == TRUE

\* Lines 593 and 603: if len(emotion_changes_df) > 0.
HasChanges(changes) == Len(changes) > 0

\* Lines 603-648: with at least one change, the influence table is built.
Aggregate ==
    /\ UNCHANGED scorer_vars
    /\ pc = "analyzed"
    /\ HasChanges(emotion_changes_df)
    /\ trigger_impact' = TriggerImpact(emotion_changes_df)
    /\ bound_names' = bound_names \cup {"trigger_impact"}
    /\ pc' = "done"
    /\ UNCHANGED <<lines, i, segments, emotion_df, threshold, sort_ties,
                   emotion_changes_df, second_changes_df>>

\* Lines 593-603: with no change, the guarded cells are skipped and
\* trigger_impact is never assigned.
NoChanges ==
    /\ UNCHANGED scorer_vars
    /\ pc = "analyzed"
    /\ ~HasChanges(emotion_changes_df)
    /\ pc' = "done"
    /\ UNCHANGED <<lines, i, segments, emotion_df, threshold, sort_ties,
                   emotion_changes_df, second_changes_df, trigger_impact,
                   bound_names>>

Next == AnalyzeEmotionChanges \/ Aggregate \/ NoChanges

Spec == Init /\ [][Next]_vars

\* ------------------------------------------ a second call, same input
AnalyzeAgain ==
    /\ UNCHANGED scorer_vars
    /\ pc = "analyzed"
    /\ second_changes_df' = analyze_emotion_changes(emotion_df, threshold)
    /\ emotion_df' = FrameAfterCall(emotion_df)
    /\ pc' = "analyzed_twice"
    /\ UNCHANGED <<lines, i, segments, threshold, sort_ties,
                   emotion_changes_df, trigger_impact, bound_names>>

NextTwice == AnalyzeEmotionChanges \/ AnalyzeAgain

SpecTwice == Init /\ [][NextTwice]_vars

\* ------------------------- the aggregation on any change-event collection
TriggerSpeakers == {"A", "B", "C"}
ScoreChanges == {-2, -1, 1, 2}

\* The n-th change event of a collection: speaker `trig` triggered a change
\* of `change` in another speaker.
ChangeEvent(n, trig, change) ==
    [affected_speaker |-> IF trig = "A" THEN "B" ELSE "A",
     change_type |-> IF change > 0 THEN "improvement" ELSE "deterioration",
     score_change |-> change,
     before_score |-> 0, after_score |-> change,
     before_time |-> 3 * n - 3, after_time |-> 3 * n - 1,
     before_text |-> 3 * n - 2, after_text |-> 3 * n,
     trigger_speaker |-> trig, trigger_time |-> 3 * n - 2,
     trigger_text |-> 3 * n - 1,
     trigger_emotion |-> "neutral", trigger_score |-> 0]

ChangeCollections(n) ==
    { [k \in 1..n |-> ChangeEvent(k, f[k][1], f[k][2])] :
        f \in [1..n -> TriggerSpeakers \X ScoreChanges] }

InitAgg ==
    /\ NoScoring
    /\ NoFile
    /\ emotion_df = <<>>
    /\ threshold = 1
    /\ sort_ties \in TieOrders
    /\ \E n \in 0..MaxEvents : emotion_changes_df \in ChangeCollections(n)
    /\ second_changes_df = <<>>
    /\ trigger_impact = <<>>
    /\ bound_names = {"emotion_changes_df"}
    /\ pc = "analyzed"

NextAgg == Aggregate \/ NoChanges

SpecAgg == InitAgg /\ [][NextAgg]_vars

\* ------------------------------------------- load_transcript_from_file
\* A line after strip(): empty, a line the pattern of line 133 matches
\* ("[speaker] HH:MM:SS", anything may follow), or any other text.
FileSpeakers == {"A", "B"}
Stamps == {<<0, 0, 0>>, <<0, 0, 5>>, <<0, 1, 0>>, <<1, 0, 0>>}

BlankLine == [kind |-> "blank", speaker |-> "", hh |-> 0, mm |-> 0, ss |-> 0]
TextLine == [kind |-> "text", speaker |-> "", hh |-> 0, mm |-> 0, ss |-> 0]
HeaderLine(sp, st) ==
    [kind |-> "header", speaker |-> sp, hh |-> st[1], mm |-> st[2],
     ss |-> st[3]]

LineValues ==
    {BlankLine, TextLine}
        \cup {HeaderLine(sp, st) : sp \in FileSpeakers, st \in Stamps}

\* re.match of lines 133 and 152.
TimestampMatch(line) == line.kind = "header"

TotalSeconds_minutes(line) == line.hh * 60 + line.mm * 60 + line.ss

\* Lines 137-140 and 154-157: hours * 3600 + minutes * 60 + seconds.
TotalSeconds(line) == line.hh * 3600 + line.mm * 60 + line.ss

\* Lines 149-158: start_time + 30, or the time of the first timestamp line
\* after the text line.  `from` is the 0-based index i + 1 of the code.
EndTime(ls, start_time, from) ==
    LET next == { j \in from..(Len(ls) - 1) : TimestampMatch(ls[j + 1]) }
    IN  IF next = {} THEN start_time + DefaultDuration
        ELSE LET first == CHOOSE j \in next : \A m \in next : j <= m
             IN  TotalSeconds(ls[first + 1])

InitParse ==
    /\ NoScoring
    /\ \E n \in 0..MaxLines : lines \in [1..n -> LineValues]
    /\ i = 0
    /\ segments = <<>>
    /\ emotion_df = <<>>
    /\ threshold = 1
    /\ sort_ties = "input"
    /\ emotion_changes_df = <<>>
    /\ second_changes_df = <<>>
    /\ trigger_impact = <<>>
    /\ bound_names = {}
    /\ pc = "parsing"

\* Lines 129-167: one iteration of the while loop.
ParseLine ==
    /\ UNCHANGED scorer_vars
    /\ pc = "parsing"
    /\ i < Len(lines)
    /\ LET line == lines[i + 1]
       IN  IF TimestampMatch(line)
           THEN LET start_time == TotalSeconds(line)
                    ti == i + 1
                IN  /\ i' = ti + 1
                    /\ IF ti < Len(lines) /\ lines[ti + 1].kind # "blank"
                       THEN segments' = Append(segments,
                               [start |-> start_time,
                                end |-> EndTime(lines, start_time, ti + 1),
                                speaker |-> line.speaker,
                                text |-> lines[ti + 1]])
                       ELSE segments' = segments
           ELSE /\ i' = i + 1
                /\ segments' = segments
    /\ UNCHANGED <<lines, emotion_df, threshold, sort_ties,
                   emotion_changes_df, second_changes_df, trigger_impact,
                   bound_names, pc>>

\* Lines 129 and 170: the loop ends, segments is returned.
ParseReturn ==
    /\ UNCHANGED scorer_vars
    /\ pc = "parsing"
    /\ ~(i < Len(lines))
    /\ pc' = "parsed"
    /\ bound_names' = bound_names \cup {"segments"}
    /\ UNCHANGED <<lines, i, segments, emotion_df, threshold, sort_ties,
                   emotion_changes_df, second_changes_df, trigger_impact>>

NextParse == ParseLine \/ ParseReturn

SpecParse == InitParse /\ [][NextParse]_vars

\* ------------------------------- analyze_emotion, analyze_emotion_udf
\* The content of a response is a sequence of tokens: prose, braces, and
\* the key-value entries a JSON object of the prompt's shape can hold.
\* Values are written as the strings of their literals.
EntryTokens == {"E", "S", "Sx", "C"}
Tokens == {"text", "{", "}"} \cup EntryTokens

KeyOf(tok) == CASE tok = "E" -> "emotion"
                [] tok \in {"S", "Sx"} -> "sentiment_score"
                [] tok = "C" -> "confidence"

ValueOf(tok) == CASE tok = "E" -> "negative"
                  [] tok = "S" -> "-1.0"
                  [] tok = "Sx" -> "n/a"
                  [] tok = "C" -> "1.0"

Contents(n) == [1..n -> Tokens]

Responses ==
    {[kind |-> "raises", content |-> <<>>],
     [kind |-> "malformed", content |-> <<>>]}
        \cup {[kind |-> "content", content |-> c] :
                 c \in UNION {Contents(n) : n \in 0..MaxContent}}

\* Line 225: re.search(r'\{.*\}', result_text, re.DOTALL): from the first
\* opening brace that has a closing brace after it to the last closing brace.
RegexSearch(content) ==
    LET opens == {k \in 1..Len(content) : content[k] = "{"}
        closes == {k \in 1..Len(content) : content[k] = "}"}
        first == CHOOSE a \in opens : \A o \in opens : a <= o
        last == CHOOSE b \in closes : \A c \in closes : c <= b
    IN  IF opens # {} /\ closes # {} /\ first < last
        THEN [found |-> TRUE, text |-> SubSeq(content, first, last)]
        ELSE [found |-> FALSE, text |-> <<>>]

\* Line 228: json.loads: an object is a brace, entries, a brace; of two
\* entries with one key the later one stays; anything else raises.
JsonLoads(text) ==
    LET inner == 2..(Len(text) - 1)
        keys == {KeyOf(text[k]) : k \in inner}
        LastOf(key) == CHOOSE k \in inner :
                          /\ KeyOf(text[k]) = key
                          /\ \A m \in inner : KeyOf(text[m]) = key => m <= k
    IN  IF /\ Len(text) >= 2 /\ text[1] = "{" /\ text[Len(text)] = "}"
           /\ \A k \in inner : text[k] \in EntryTokens
        THEN [raised |-> FALSE,
              value |-> [key \in keys |-> ValueOf(text[LastOf(key)])]]
        ELSE [raised |-> TRUE, value |-> EmptyDict]

\* Line 230: the dict returned when the content holds no match.
NoJsonFallback ==
    [emotion |-> "neutral", sentiment_score |-> "0.0", confidence |-> "0.5"]

\* Line 233: the dict returned by the except clause.
ErrorFallback ==
    [emotion |-> "neutral", sentiment_score |-> "0.0", confidence |-> "0.0"]

\* Lines 212-230: the body of the try.
TryBody(resp) ==
    IF resp.kind # "content"
    THEN [raised |-> TRUE, value |-> EmptyDict]
    ELSE LET json_match == RegexSearch(resp.content)
         IN  IF json_match.found THEN JsonLoads(json_match.text)
             ELSE [raised |-> FALSE, value |-> NoJsonFallback]

Except_reraise(outcome) == outcome

\* Lines 231-233: except Exception: return the fallback.
Except(outcome) ==
    IF outcome.raised THEN [raised |-> FALSE, value |-> ErrorFallback]
    ELSE outcome

\* Lines 211-233.
analyze_emotion(resp) == Except(TryBody(resp))

\* float(): the number a literal stands for, or an exception.
Float(v) ==
    CASE v = "0.0" -> [raised |-> FALSE, value |-> 0]
      [] v = "-1.0" -> [raised |-> FALSE, value |-> -1]
      [] v = "1.0" -> [raised |-> FALSE, value |-> 1]
      [] OTHER -> [raised |-> TRUE, value |-> 0]

\* dict.get(key, default).
Get(dict, key, default) ==
    IF key \in DOMAIN dict THEN dict[key] ELSE default

\* Lines 254-262: the row analyze_emotion_udf makes of the dict, or its own
\* fallback when anything raised.
UdfRow(outcome) ==
    LET score == Float(Get(outcome.value, "sentiment_score", "0.0"))
    IN  IF outcome.raised \/ score.raised
        THEN [emotion |-> "neutral", sentiment_score |-> 0]
        ELSE [emotion |-> Get(outcome.value, "emotion", "neutral"),
              sentiment_score |-> score.value]

pipeline_vars == <<lines, i, segments, emotion_df, threshold, sort_ties,
                   emotion_changes_df, second_changes_df, trigger_impact,
                   bound_names>>

InitScore ==
    /\ NoFile
    /\ emotion_df = <<>>
    /\ threshold = 1
    /\ sort_ties = "input"
    /\ emotion_changes_df = <<>>
    /\ second_changes_df = <<>>
    /\ trigger_impact = <<>>
    /\ bound_names = {}
    /\ response \in Responses
    /\ emotion = NoCall
    /\ udf_row = NoCall
    /\ pc = "udf_called"

\* Line 255: emotion = analyze_emotion(text, timestamp).
AnalyzeEmotion ==
    /\ pc = "udf_called"
    /\ emotion' = analyze_emotion(response)
    /\ pc' = "emotion_returned"
    /\ UNCHANGED <<response, udf_row>>
    /\ UNCHANGED pipeline_vars

\* Lines 256-262: the UDF returns its row.
UdfReturn ==
    /\ pc = "emotion_returned"
    /\ udf_row' = [raised |-> FALSE, value |-> UdfRow(emotion)]
    /\ pc' = "udf_returned"
    /\ UNCHANGED <<response, emotion>>
    /\ UNCHANGED pipeline_vars

NextScore == AnalyzeEmotion \/ UdfReturn

SpecScore == InitScore /\ [][NextScore]_vars

\* ======================================================== properties
DfRows == 1..Len(emotion_df)

ChangeRows == 1..Len(emotion_changes_df)

Analyzed == pc \in {"analyzed", "analyzed_twice", "done"}

\* Row p comes before row c in the sorted sequence of their speaker.
SortsBefore(p, c) ==
    \/ emotion_df[p].start_time < emotion_df[c].start_time
    \/ /\ emotion_df[p].start_time = emotion_df[c].start_time
       /\ IF sort_ties = "input" THEN p < c ELSE p > c

SameSpeaker(p, c) == emotion_df[p].speaker = emotion_df[c].speaker

\* (p, c) is a pair (previous, current) of one speaker's sorted sequence.
AdjacentPair(p, c) ==
    /\ p # c
    /\ SameSpeaker(p, c)
    /\ SortsBefore(p, c)
    /\ ~ \E m \in DfRows \ {p, c} :
          SameSpeaker(p, m) /\ SortsBefore(p, m) /\ SortsBefore(m, c)

Delta(p, c) == emotion_df[c].sentiment_score - emotion_df[p].sentiment_score

\* The other-speaker rows strictly between p and c.
Candidates(p, c) ==
    { u \in DfRows :
        /\ ~SameSpeaker(u, p)
        /\ emotion_df[p].start_time < emotion_df[u].start_time
        /\ emotion_df[u].start_time < emotion_df[c].start_time }

QualifyingPair(p, c) ==
    /\ AdjacentPair(p, c)
    /\ Abs(Delta(p, c)) >= threshold
    /\ Candidates(p, c) # {}

EventsOfPair(p, c) ==
    { k \in ChangeRows : /\ emotion_changes_df[k].before_text = p
                         /\ emotion_changes_df[k].after_text = c }

C2_TriggerIsLatestCandidate ==
    pc = "analyzed" =>
        \A k \in ChangeRows :
            LET e == emotion_changes_df[k]
            IN  /\ e.trigger_text \in DfRows
                /\ emotion_df[e.trigger_text].speaker = e.trigger_speaker
                /\ emotion_df[e.trigger_text].start_time = e.trigger_time
                /\ e.trigger_speaker # e.affected_speaker
                /\ e.before_time < e.trigger_time
                /\ e.trigger_time < e.after_time
                /\ ~ \E u \in DfRows :
                      /\ emotion_df[u].speaker # e.affected_speaker
                      /\ emotion_df[u].start_time > e.trigger_time
                      /\ emotion_df[u].start_time < e.after_time

\* An event whose interval holds candidates at two different times.
C2_Witness ==
    /\ Analyzed /\ threshold > 0
    /\ \E k \in ChangeRows :
         \E u \in Candidates(emotion_changes_df[k].before_text,
                              emotion_changes_df[k].after_text) :
            emotion_df[u].start_time < emotion_changes_df[k].trigger_time

C4_InvalidThresholdRejected ==
    threshold <= 0 =>
        /\ "emotion_changes_df" \notin bound_names
        /\ Len(emotion_changes_df) = 0

\* C5 as stated: zero utterances give zero change events, and the influence
\* aggregation of zero change events yields an empty influence table.
C5_EmptyYieldsEmptyTable ==
    /\ (Analyzed /\ Len(emotion_df) = 0) =>
           ("emotion_changes_df" \in bound_names /\ emotion_changes_df = <<>>)
    /\ (pc = "done" /\ Len(emotion_changes_df) = 0) =>
           ("trigger_impact" \in bound_names /\ trigger_impact = <<>>)

\* C5 amended: zero utterances give zero change events without failing, and
\* with zero change events the notebook runs to its end with the influence
\* aggregation skipped: no influence table is assigned.
C5_EmptyIsNotAnError ==
    /\ (Analyzed /\ Len(emotion_df) = 0) =>
           ("emotion_changes_df" \in bound_names /\ emotion_changes_df = <<>>)
    /\ (pc = "done" /\ Len(emotion_changes_df) = 0) =>
           "trigger_impact" \notin bound_names
    /\ (pc = "done" /\ Len(emotion_changes_df) > 0) =>
           "trigger_impact" \in bound_names

\* The notebook ran to its end on zero utterances.
C5_Witness == pc = "done" /\ Len(emotion_df) = 0

\* ---- the influence table
TableRows == 1..Len(trigger_impact)

Aggregated == pc = "done" /\ "trigger_impact" \in bound_names

EventsTriggeredBy(sp) ==
    { k \in ChangeRows : emotion_changes_df[k].trigger_speaker = sp }

RECURSIVE SumOver(_, _)
SumOver(S, f) ==
    IF S = {} THEN 0
    ELSE LET x == CHOOSE y \in S : TRUE
         IN  f[x] + SumOver(S \ {x}, f)

ScoreChangeOf == [k \in ChangeRows |-> emotion_changes_df[k].score_change]

\* C6: the influence table has one entry per distinct trigger speaker; an
\* entry's count is the number of events of that trigger speaker and its
\* total_impact the sum of their score_change, sign kept; so the totals add
\* up to the sum of all score_change and the counts to the number of events.
C6_Conservation ==
    Aggregated =>
        /\ \A sp \in {emotion_changes_df[k].trigger_speaker : k \in ChangeRows} :
              Cardinality({r \in TableRows :
                             trigger_impact[r].trigger_speaker = sp}) = 1
        /\ \A r \in TableRows :
              LET sp == trigger_impact[r].trigger_speaker
              IN  /\ EventsTriggeredBy(sp) # {}
                  /\ trigger_impact[r].count = Cardinality(EventsTriggeredBy(sp))
                  /\ trigger_impact[r].total_impact =
                        SumOver(EventsTriggeredBy(sp), ScoreChangeOf)
        /\ SumOver(TableRows, [r \in TableRows |-> trigger_impact[r].total_impact])
              = SumOver(ChangeRows, ScoreChangeOf)
        /\ SumOver(TableRows, [r \in TableRows |-> trigger_impact[r].count])
              = Len(emotion_changes_df)

\* A table with an entry summing several events to a negative total.
C6_Witness ==
    /\ Aggregated
    /\ \E r \in TableRows : /\ trigger_impact[r].count > 1
                             /\ trigger_impact[r].total_impact < 0
    /\ Len(trigger_impact) > 1

\* C7: the influence table is ordered by total_impact descending.
C7_SortedDescending ==
    Aggregated =>
        \A r \in TableRows :
            r + 1 \in TableRows =>
                trigger_impact[r].total_impact
                    >= trigger_impact[r + 1].total_impact

\* A table where the speaker with the greater total has the later name.
C7_Witness ==
    /\ Aggregated
    /\ \E r \in TableRows :
         /\ r + 1 \in TableRows
         /\ trigger_impact[r].total_impact > trigger_impact[r + 1].total_impact
         /\ SpeakerRank(trigger_impact[r].trigger_speaker)
              > SpeakerRank(trigger_impact[r + 1].trigger_speaker)

FirstTriggered(sp) ==
    CHOOSE k \in EventsTriggeredBy(sp) : \A m \in EventsTriggeredBy(sp) : k <= m

\* C8 as stated: trigger speakers with equal total_impact are listed in the
\* order of their first appearance in the change-event collection (checked
\* where the sort keeps equal keys in place, the case most in its favour).
C8_TiesByFirstAppearance ==
    (Aggregated /\ sort_ties = "input") =>
        \A r, q \in TableRows :
            (r < q /\ trigger_impact[r].total_impact
                        = trigger_impact[q].total_impact)
                => FirstTriggered(trigger_impact[r].trigger_speaker)
                     < FirstTriggered(trigger_impact[q].trigger_speaker)

Orderings(n) ==
    { f \in [1..n -> 1..n] : \A a, b \in 1..n : f[a] = f[b] => a = b }

\* C8 amended: the order of trigger speakers with equal total_impact does
\* not follow the order of the change events (every ordering of the events
\* gives the same table); they are listed by ascending speaker name, the
\* order groupby gives them, whenever the sort keeps equal keys in place.
C8_TiesByGroupOrder ==
    Aggregated =>
        /\ \A f \in Orderings(Len(emotion_changes_df)) :
              TriggerImpact([k \in ChangeRows |-> emotion_changes_df[f[k]]])
                  = trigger_impact
        /\ sort_ties = "input" =>
              \A r, q \in TableRows :
                  (r < q /\ trigger_impact[r].total_impact
                              = trigger_impact[q].total_impact)
                      => SpeakerRank(trigger_impact[r].trigger_speaker)
                           < SpeakerRank(trigger_impact[q].trigger_speaker)

\* Two trigger speakers tie, one over two events and one over one event, and
\* the one with the later name appears first in the events.
C8_Witness ==
    /\ Aggregated
    /\ sort_ties = "input"
    /\ \E r, q \in TableRows :
         /\ r < q
         /\ trigger_impact[r].total_impact = trigger_impact[q].total_impact
         /\ trigger_impact[r].count # trigger_impact[q].count
         /\ FirstTriggered(trigger_impact[r].trigger_speaker)
              > FirstTriggered(trigger_impact[q].trigger_speaker)

C10_EndNotBeforeStart ==
    \A k \in 1..Len(segments) :
        /\ segments[k].start >= 0
        /\ segments[k].end >= segments[k].start

\* ---- the parser's result
IsHeader(k) == k \in 1..Len(lines) /\ lines[k].kind = "header"

\* The number of header lines in a row that end just before line k.
HeaderRunBefore(k) ==
    CHOOSE r \in 0..(k - 1) :
        /\ \A j \in 1..r : IsHeader(k - j)
        /\ ~IsHeader(k - r - 1)

\* Line k was read as the line after a header (its text, or nothing): every
\* second line of a run of headers is, and so is the line after the run when
\* the run is of odd length.
ReadAsText(k) == HeaderRunBefore(k) % 2 = 1

\* The blocks of the file: a header line that opens a block, followed by a
\* non-empty line.
BlockStarts ==
    { k \in 1..(Len(lines) - 1) :
        IsHeader(k) /\ ~ReadAsText(k) /\ lines[k + 1].kind # "blank" }

NthBlock(n) ==
    CHOOSE k \in BlockStarts :
        Cardinality({m \in BlockStarts : m < k}) = n - 1

HeadersAfter(k) == { j \in (k + 1)..Len(lines) : IsHeader(j) }

BlocksBecomeUtterances ==
    /\ Len(segments) = Cardinality(BlockStarts)
    /\ \A n \in 1..Len(segments) :
          LET k == NthBlock(n)
          IN  /\ segments[n].start
                    = lines[k].hh * 3600 + lines[k].mm * 60 + lines[k].ss
              /\ segments[n].speaker = lines[k].speaker
              /\ segments[n].text = lines[k + 1]

EmotionReturned == pc \in {"emotion_returned", "udf_returned"}

ModelCallFailed == response.kind \in {"raises", "malformed"}

HasBracedPart ==
    /\ response.kind = "content"
    /\ \E a, b \in 1..Len(response.content) :
         a < b /\ response.content[a] = "{" /\ response.content[b] = "}"

NoJsonObject == response.kind = "content" /\ ~HasBracedPart

\* The part from the first opening brace to the last closing brace is not
\* an object: something other than an entry stands between them.
JsonFailsToParse ==
    /\ HasBracedPart
    /\ \E a, b, k \in 1..Len(response.content) :
         /\ response.content[a] = "{" /\ response.content[b] = "}"
         /\ a < k /\ k < b
         /\ response.content[k] \notin EntryTokens

\* C12 as stated: analyze_emotion returns a value for every response, and
\* when the model call raises, the content holds no JSON object or the JSON
\* fails to parse, that value is {neutral, 0.0, confidence 0.0}.
C12_FallbackOnAnyFailure ==
    EmotionReturned =>
        /\ ~emotion.raised
        /\ (ModelCallFailed \/ NoJsonObject \/ JsonFailsToParse) =>
              emotion.value = [emotion |-> "neutral",
                               sentiment_score |-> "0.0",
                               confidence |-> "0.0"]

\* C12 amended: as above, except that a content without a JSON object
\* gives {neutral, 0.0, confidence 0.5}.
C12_FallbackPerFailure ==
    EmotionReturned =>
        /\ ~emotion.raised
        /\ (ModelCallFailed \/ JsonFailsToParse) =>
              emotion.value = [emotion |-> "neutral",
                               sentiment_score |-> "0.0",
                               confidence |-> "0.0"]
        /\ NoJsonObject =>
              emotion.value = [emotion |-> "neutral",
                               sentiment_score |-> "0.0",
                               confidence |-> "0.5"]

\* analyze_emotion returned for a content with braces but no object in it.
C12_Witness ==
    /\ EmotionReturned
    /\ NoJsonObject
    /\ \E a, b \in 1..Len(response.content) :
         response.content[a] = "{" /\ response.content[b] = "}"

\* ---- the order of the rows
DistinctStartTimes ==
    \A p, c \in DfRows :
        p # c => emotion_df[p].start_time # emotion_df[c].start_time

\* The frame with its rows delivered in the order f.
PermutedFrame(f) == [k \in DfRows |-> emotion_df[f[k]]]

EventSet(changes) == {changes[k] : k \in 1..Len(changes)}

FirstRowOf(df, sp) ==
    CHOOSE k \in 1..Len(df) :
        df[k].speaker = sp /\ \A m \in 1..(k - 1) : df[m].speaker # sp

\* C13: when all start times differ, every order of the rows gives the same
\* change events, each once; only their order differs, the affected
\* speakers coming in the order of their first row in the frame.
C13_RowOrderIndependent ==
    (pc = "analyzed" /\ DistinctStartTimes) =>
        \A f \in Orderings(Len(emotion_df)) :
            LET df == PermutedFrame(f)
                changes == analyze_emotion_changes(df, threshold)
            IN  /\ EventSet(changes) = EventSet(emotion_changes_df)
                /\ Len(changes) = Len(emotion_changes_df)
                /\ \A k, m \in 1..Len(changes) :
                      k < m => FirstRowOf(df, changes[k].affected_speaker)
                                 <= FirstRowOf(df, changes[m].affected_speaker)

\* Events of two affected speakers came out of a frame whose rows have
\* distinct start times and are not in time order.
C13_Witness ==
    /\ Analyzed /\ DistinctStartTimes /\ threshold > 0
    /\ \E k, m \in ChangeRows :
         emotion_changes_df[k].affected_speaker
             # emotion_changes_df[m].affected_speaker
    /\ \E p, c \in DfRows :
         p < c /\ emotion_df[p].start_time > emotion_df[c].start_time
====
